---- MODULE Spec2Model ----
(***************************************************************************)
(* KnowDEGs (src/app.py): one render pass of the report script over an     *)
(* uploaded DEG table.  The script is a straight line of sections; each    *)
(* action below is one section (or one iteration of the annotation loop),  *)
(* and the network is the only source of nondeterminism after the upload.  *)
(*                                                                         *)
(* Numbers are kept in tenths (2.3 is 23), so the threshold 1 is 10.       *)
(***************************************************************************)
EXTENDS Integers, Sequences, FiniteSets, TLC

VARIABLES
    file,        \* the uploaded CSV text: [header, lines]
    net,         \* the network this pass runs against: "reliable" or "unreliable"
    pc,          \* position of the script
    df,          \* the DataFrame: [cols, dtype, rows]
    up_genes,    \* row indices of df[df["log2(FC)"] > 1]
    down_genes,  \* row indices of df[df["log2(FC)"] <= 1]
    hub_genes,   \* row indices of df[df["IsHub"].str.lower() == "yes"]
    top_up,      \* row indices of up_genes.nlargest(5, "log2(FC)")
    top_down,    \* row indices of down_genes.nsmallest(5, "log2(FC)")
    gene_list,   \* the genes the annotation loop iterates over
    gi,          \* 1-based position of the annotation loop in gene_list
    requests,    \* every HTTP request issued so far, in order
    responses,   \* what the network answered to each of them
    enriched_terms, \* the KEGG_2021_Human array of the enrich response
    top_terms,   \* the rows collected for enrich_df
    page,        \* the elements rendered so far, in order
    exported,    \* the CSV text handed to the download button
    error        \* the uncaught exception that stopped the script, or ""

vars == <<file, net, pc, df, up_genes, down_genes, hub_genes, top_up, top_down,
          gene_list, gi, requests, responses, enriched_terms, top_terms, page,
          exported, error>>

(***************************************************************************)
(* Bounds of the checked inputs.                                           *)
(***************************************************************************)
MaxRows == 2        \* rows of a table checked against the unreliable network
MaxFcRows == 7      \* rows of a table whose log2(FC) cells vary
MaxMixRows == 2     \* rows of a table whose log2(FC) and IsHub cells vary
MaxGeneRows == 13   \* rows of a table whose Gene_Symbol cells vary
MaxTerms == 6       \* entries of the enrichment array

(***************************************************************************)
(* Program constants.                                                      *)
(***************************************************************************)
FcThreshold == 10   \* the 1 of "x > 1", in tenths
TopN == 5           \* nlargest(5, ...) / nsmallest(5, ...)
AnnotLimit == 10    \* [:10]
TermLimit == 5      \* enriched_terms[:5]

Min(a, b) == IF a <= b THEN a ELSE b
Range(s) == {s[k] : k \in 1..Len(s)}
IndexOf(s, x) == CHOOSE k \in 1..Len(s) : s[k] = x

(***************************************************************************)
(* Cells.  A cell of a DataFrame is a number, a string or missing (NaN).   *)
(***************************************************************************)
Num(v) == [t |-> "num", n |-> v, s |-> ""]
Str(x) == [t |-> "str", n |-> 0, s |-> x]
NaN == [t |-> "nan", n |-> 0, s |-> ""]

\* The tokens pandas.read_csv reads as missing (a few of its default na_values).
NAToks == {"", "NA", "NaN"}

\* The numeric tokens of the checked files and their values in tenths.
NumTok ==
    ("1" :> 10) @@ ("2" :> 20) @@ ("1.0" :> 10) @@ ("2.0" :> 20) @@
    ("0.5" :> 5) @@ ("1.4" :> 14) @@ ("2.3" :> 23) @@ ("3.1" :> 31) @@
    ("-1.5" :> -15)
IntToks == {"1", "2"}

IsNumTok(tok) == tok \in DOMAIN NumTok

\* str(x) of a number, as DataFrame.to_csv writes it: an int64 column writes
\* "1", a float64 column writes "1.0".
FmtNum(dtype, v) ==
    CHOOSE tok \in DOMAIN NumTok :
        NumTok[tok] = v /\ (tok \in IntToks <=> dtype = "int64")

\* str.lower() on the strings of the checked files.
LowerMap == ("Yes" :> "yes") @@ ("YES" :> "yes") @@ ("Unknown" :> "unknown")
Lower(x) == IF x \in DOMAIN LowerMap THEN LowerMap[x] ELSE x

(***************************************************************************)
(* pandas.read_csv (line 15).  A CSV text is a header and the data lines,  *)
(* each a sequence of fields.                                              *)
(***************************************************************************)
NoDF == [cols |-> <<>>, dtype |-> <<>>, rows |-> <<>>]
NoText == [header |-> <<>>, lines |-> <<>>]

\* Every data line one field longer than the header: the first field is the
\* row label (the implicit index) and is not a column.
HasIndexField(text) ==
    /\ text.lines # <<>>
    /\ \A k \in 1..Len(text.lines) : Len(text.lines[k]) = Len(text.header) + 1

DataLines(text) ==
    IF HasIndexField(text)
    THEN [k \in 1..Len(text.lines) |-> Tail(text.lines[k])]
    ELSE text.lines

\* The exception read_csv raises on the text, or "".
ReadCsvError(text) ==
    IF text.header = <<>> THEN "EmptyDataError"
    ELSE IF \E k \in 1..Len(DataLines(text)) :
                Len(DataLines(text)[k]) > Len(text.header)
    THEN "ParserError"
    ELSE ""

\* The field of column c on data line k; a short line is padded with missing.
Field(text, k, c) ==
    LET line == DataLines(text)[k]
        j == IndexOf(text.header, c)
    IN  IF j <= Len(line) THEN line[j] ELSE ""

\* Type inference of one column.
ColDtype(text, c) ==
    LET n == Len(text.lines)
        toks == {Field(text, k, c) : k \in 1..n}
    IN  IF n = 0 THEN "object"
        ELSE IF \E tok \in toks : tok \notin NAToks /\ ~IsNumTok(tok) THEN "object"
        ELSE IF toks \subseteq IntToks THEN "int64"
        ELSE "float64"

ParseCell(dtype, tok) ==
    IF tok \in NAToks THEN NaN
    ELSE IF dtype = "object" THEN Str(tok)
    ELSE Num(NumTok[tok])

ReadCsv(text) ==
    LET cs == Range(text.header)
        dt == [c \in cs |-> ColDtype(text, c)]
    IN  [cols |-> text.header,
         dtype |-> dt,
         rows |-> [k \in 1..Len(text.lines) |->
                     [c \in cs |-> ParseCell(dt[c], Field(text, k, c))]]]

\* Mutant of ToCsv: the header row left out (header=False).
ToCsvNoHeader(d) ==
    LET fields(k) == [j \in 1..Len(d.cols) |->
                        IF d.rows[k][d.cols[j]].t = "nan" THEN ""
                        ELSE IF d.rows[k][d.cols[j]].t = "str" THEN d.rows[k][d.cols[j]].s
                        ELSE FmtNum(d.dtype[d.cols[j]], d.rows[k][d.cols[j]].n)]
    IN  IF d.rows = <<>> THEN NoText
        ELSE [header |-> fields(1),
              lines |-> [k \in 1..(Len(d.rows) - 1) |-> fields(k + 1)]]

(***************************************************************************)
(* DataFrame.to_csv(index=False) (line 124).                               *)
(***************************************************************************)
FmtCell(dtype, cell) ==
    IF cell.t = "nan" THEN ""
    ELSE IF cell.t = "str" THEN cell.s
    ELSE FmtNum(dtype, cell.n)

ToCsv(d) ==
    [header |-> d.cols,
     lines |-> [k \in 1..Len(d.rows) |->
                  [j \in 1..Len(d.cols) |->
                      FmtCell(d.dtype[d.cols[j]], d.rows[k][d.cols[j]])]]]

(***************************************************************************)
(* df[name] = values: replaces the column in place or appends it.          *)
(***************************************************************************)
SetColumn(d, name, dtype, vals) ==
    LET cs == Range(d.cols) \cup {name}
    IN  [cols |-> IF name \in Range(d.cols) THEN d.cols ELSE Append(d.cols, name),
         dtype |-> [c \in cs |-> IF c = name THEN dtype ELSE d.dtype[c]],
         rows |-> [k \in 1..Len(d.rows) |->
                     [c \in cs |-> IF c = name THEN vals[k] ELSE d.rows[k][c]]]]

(***************************************************************************)
(* Table Loader (lines 15-22).                                             *)
(***************************************************************************)
HasCol(d, c) == c \in Range(d.cols)

\* Mutant of Regulation: the comparison written x >= 1.
RegulationAtLeast(x) == IF x.t = "num" /\ x.n >= FcThreshold THEN "Up" ELSE "Down"

\* lambda x: "Up" if x > 1 else "Down" (NaN > 1 is False).
Regulation(x) == IF x.t = "num" /\ x.n > FcThreshold THEN "Up" ELSE "Down"

\* The exception line 18 raises on the parsed frame, or "": df["log2(FC)"] of a
\* frame without the column, or str > int on a non-numeric cell.
RegulationError(d) ==
    IF ~HasCol(d, "log2(FC)") THEN "KeyError"
    ELSE IF \E k \in 1..Len(d.rows) : d.rows[k]["log2(FC)"].t = "str" THEN "TypeError"
    ELSE ""

\* Mutant of Augment: the IsHub default assigned without the column test.
AugmentAlwaysUnknown(d) ==
    SetColumn(SetColumn(d, "Regulation", "object",
                  [k \in 1..Len(d.rows) |-> Str(Regulation(d.rows[k]["log2(FC)"]))]),
              "IsHub", "object", [k \in 1..Len(d.rows) |-> Str("Unknown")])

\* Lines 18-22 on a frame line 18 accepts.
Augment(d) ==
    LET d1 == SetColumn(d, "Regulation", "object",
                  [k \in 1..Len(d.rows) |-> Str(Regulation(d.rows[k]["log2(FC)"]))])
    IN  IF ~HasCol(d1, "IsHub")
        THEN SetColumn(d1, "IsHub", "object", [k \in 1..Len(d.rows) |-> Str("Unknown")])
        ELSE d1

\* Lines 15-22 as a function of the text: the exception raised or the frame.
LoadTable(text) ==
    IF ReadCsvError(text) # "" THEN [err |-> ReadCsvError(text), df |-> NoDF]
    ELSE IF RegulationError(ReadCsv(text)) # ""
    THEN [err |-> RegulationError(ReadCsv(text)), df |-> NoDF]
    ELSE [err |-> "", df |-> Augment(ReadCsv(text))]

(***************************************************************************)
(* Summary Aggregator (lines 28-30, 39-40).  A filtered frame is the       *)
(* sequence of the row labels it keeps, in table order.                    *)
(***************************************************************************)
Labels(d) == [k \in 1..Len(d.rows) |-> k]
Fc(d, k) == d.rows[k]["log2(FC)"]

\* df[df["log2(FC)"] > 1]
UpRows(d) ==
    SelectSeq(Labels(d), LAMBDA k : Fc(d, k).t = "num" /\ Fc(d, k).n > FcThreshold)

\* df[df["log2(FC)"] <= 1]
DownRows(d) ==
    SelectSeq(Labels(d), LAMBDA k : Fc(d, k).t = "num" /\ Fc(d, k).n <= FcThreshold)

\* df["IsHub"].str raises unless the column holds strings.
HubError(d) == IF d.dtype["IsHub"] # "object" THEN "AttributeError" ELSE ""

\* df[df["IsHub"].str.lower() == "yes"]
HubRows(d) ==
    SelectSeq(Labels(d), LAMBDA k :
        d.rows[k]["IsHub"].t = "str" /\ Lower(d.rows[k]["IsHub"].s) = "yes")

\* The label nlargest/nsmallest takes next from the labels left: the first, in
\* table order, of those with the best value (keep="first").
Best(d, left, largest) ==
    LET better(a, b) == IF largest THEN Fc(d, a).n > Fc(d, b).n
                                   ELSE Fc(d, a).n < Fc(d, b).n
        j == CHOOSE j \in 1..Len(left) :
                /\ \A m \in 1..Len(left) : ~better(left[m], left[j])
                /\ \A m \in 1..(j - 1) : better(left[j], left[m])
    IN  left[j]

RECURSIVE TakeBest(_, _, _, _)
TakeBest(d, left, n, largest) ==
    IF n = 0 \/ left = <<>> THEN <<>>
    ELSE LET b == Best(d, left, largest)
         IN  <<b>> \o TakeBest(d, SelectSeq(left, LAMBDA k : k # b), n - 1, largest)

\* Mutant of NLargest: ties taken from the end of the table (keep="last").
NLargestKeepLast(d, sub, n) ==
    TakeBest(d, [k \in 1..Len(sub) |-> sub[Len(sub) + 1 - k]], n, TRUE)

\* sub.nlargest(n, "log2(FC)")
NLargest(d, sub, n) == TakeBest(d, sub, n, TRUE)
\* sub.nsmallest(n, "log2(FC)")
NSmallest(d, sub, n) == TakeBest(d, sub, n, FALSE)

\* nlargest/nsmallest refuse a column that is not numeric.
TopError(d) == IF d.dtype["log2(FC)"] = "object" THEN "TypeError" ELSE ""

\* top_up[["Gene_Symbol", "log2(FC)", "Padj"]]
TopColumnsError(d) ==
    IF HasCol(d, "Gene_Symbol") /\ HasCol(d, "Padj") THEN "" ELSE "KeyError"

(***************************************************************************)
(* Annotation subset (line 57) and the enrichment gene list (line 76).     *)
(***************************************************************************)
\* df["Gene_Symbol"].dropna(), as the strings the requests carry.
GeneSymbols(d) ==
    LET col == [k \in 1..Len(d.rows) |-> d.rows[k]["Gene_Symbol"]]
        kept == SelectSeq(col, LAMBDA c : c.t # "nan")
    IN  [k \in 1..Len(kept) |-> FmtCell(d.dtype["Gene_Symbol"], kept[k])]

\* .unique(): the first occurrence of each value, in order.
Unique(s) ==
    LET first == SelectSeq([k \in 1..Len(s) |-> k],
                           LAMBDA k : \A m \in 1..(k - 1) : s[m] # s[k])
    IN  [k \in 1..Len(first) |-> s[first[k]]]

\* Mutant of GeneList: .unique() left out.
GeneListWithRepeats(d) ==
    SubSeq(GeneSymbols(d), 1, Min(AnnotLimit, Len(GeneSymbols(d))))

\* .tolist()[:10]
GeneList(d) ==
    LET u == Unique(GeneSymbols(d)) IN SubSeq(u, 1, Min(AnnotLimit, Len(u)))

(***************************************************************************)
(* Enrichment terms (lines 93-100).  An entry of the array is the tuple    *)
(* <<rank, term, p-value, odds, score, genes>> (indices 0..5 of the code). *)
(***************************************************************************)
\* term[5] raises IndexError on a shorter entry.
TermError(t) == IF Len(t) < 6 THEN "IndexError" ELSE ""

\* {"Term": term[1], "P-value": term[2], "Genes": term[5]}
TermRow(t) == [Term |-> t[2], P |-> t[3], Genes |-> t[6]]

\* Mutant of TermPrefix: the [:5] left out.
TermPrefixAll(arr) == arr

\* enriched_terms[:5]
TermPrefix(arr) == SubSeq(arr, 1, Min(TermLimit, Len(arr)))

\* The rows the loop has appended when it ends or raises.
RECURSIVE CollectTerms(_)
CollectTerms(arr) ==
    IF arr = <<>> \/ TermError(Head(arr)) # "" THEN <<>>
    ELSE <<TermRow(Head(arr))>> \o CollectTerms(Tail(arr))

\* np.log10 raises TypeError on a P-value that is not a number (a p-value is
\* a non-negative number; a negative one stands for a JSON string).
Log10Error(rows) ==
    IF \E k \in 1..Len(rows) : rows[k].P < 0 THEN "TypeError" ELSE ""

(***************************************************************************)
(* The rendered page and the request log.                                  *)
(***************************************************************************)
El(e) == [el |-> e, gene |-> "", kind |-> ""]
AnnotLine(gene, kind) == [el |-> "annotation", gene |-> gene, kind |-> kind]
Req(kind, arg) == [kind |-> kind, arg |-> arg]

Shown(e) == \E k \in 1..Len(page) : page[k].el = e
CountShown(e) == Cardinality({k \in 1..Len(page) : page[k].el = e})

(***************************************************************************)
(* What the two services can answer.                                       *)
(***************************************************************************)
\* requests.get on mygene.info: the call raises, answers a status other than
\* 200, answers 200 with a body that is not JSON, with JSON lacking "hits",
\* with no hit, with a hit lacking name and summary, or with a full hit.
LookupOutcomes(n) ==
    IF n = "reliable" THEN {"hit"}
    ELSE {"neterr", "non200", "notjson", "nohitsfield", "nohits", "hit_bare", "hit"}

\* requests.post on addList: the call raises, the body is not JSON, the JSON
\* lacks "userListId", or the list is accepted.
SubmitOutcomes(n) ==
    IF n = "reliable" THEN {"ok"} ELSE {"neterr", "notjson", "nokey", "ok"}

\* requests.get on enrich: as above, "terms" standing for JSON that has the
\* KEGG_2021_Human array.
QueryOutcomes(n) ==
    IF n = "reliable" THEN {"terms"} ELSE {"neterr", "notjson", "nokey", "terms"}

OkTerm(r) == <<r, 100 + r, r, 0, 0, 200 + r>>
ShortTerm(r) == <<r, 100 + r, r>>
BadPTerm(r) == <<r, 100 + r, 0 - 1, 0, 0, 200 + r>>

\* The arrays the enrich service answers with: k well-formed entries in
\* ascending or descending rank, or ascending with one entry that is too short
\* or whose p-value is not a number.
TermArrays(n) ==
    IF n = "reliable" THEN {[r \in 1..MaxTerms |-> OkTerm(r)]}
    ELSE {[r \in 1..k |-> OkTerm(r)] : k \in 0..MaxTerms}
         \cup {[r \in 1..k |-> OkTerm(k + 1 - r)] : k \in 2..MaxTerms}
         \cup UNION {{[r \in 1..k |-> IF r = b THEN ShortTerm(r) ELSE OkTerm(r)],
                      [r \in 1..k |-> IF r = b THEN BadPTerm(r) ELSE OkTerm(r)]}
                     : <<k, b>> \in {kb \in (1..MaxTerms) \X (1..MaxTerms) : kb[2] <= kb[1]}}

(***************************************************************************)
(* The uploaded files.                                                     *)
(***************************************************************************)
FullHeader == <<"Gene_Symbol", "log2(FC)", "Padj", "IsHub">>
Without(c) == SelectSeq(FullHeader, LAMBDA x : x # c)
Headers == {FullHeader} \cup {Without(c) : c \in Range(FullHeader)}

GeneTok(k) == "G" \o ToString(k)

Line(header, gene, fc, padj, hub) ==
    [j \in 1..Len(header) |->
        CASE header[j] = "Gene_Symbol" -> gene
          [] header[j] = "log2(FC)" -> fc
          [] header[j] = "Padj" -> padj
          [] OTHER -> hub]

FcCycle == <<"2.3", "-1.5", "1">>
FcOfRow(k) == FcCycle[((k - 1) % 3) + 1]

\* Files read against the unreliable network: every header, the gene symbols
\* vary; and two files read_csv rejects (an empty one, one with a long line).
EmptyFile == NoText
RaggedFile ==
    [header |-> FullHeader,
     lines |-> <<<<"G1", "2.3", "0.5", "yes">>, <<"G2", "1", "0.5", "no", "x", "y">>>>]
SmallFiles ==
    {[header |-> h,
      lines |-> [k \in 1..n |-> Line(h, g[k], FcOfRow(k), "0.5", "yes")]]
        : <<h, n, g>> \in
            UNION {{<<h, n, g>> : h \in Headers, g \in [1..n -> {"", "G1", "G2"}]}
                   : n \in 0..MaxRows}}
    \cup {EmptyFile, RaggedFile}

\* Files whose log2(FC) cells vary (one gene per row).
FcFiles ==
    {[header |-> FullHeader,
      lines |-> [k \in 1..n |-> Line(FullHeader, "TP53", f[k], "0.5", "no")]]
        : <<n, f>> \in
            UNION {{<<n, f>> : f \in [1..n -> {"1", "2.3", "3.1"}]}
                   : n \in 0..MaxFcRows}}

\* Files whose log2(FC) and IsHub cells vary, with and without the IsHub column.
MixFiles ==
    {[header |-> h,
      lines |-> [k \in 1..n |-> Line(h, IF k % 2 = 1 THEN "TP53" ELSE "BRCA1",
                                     f[k], "0.5", u[k])]]
        : <<h, n, f, u>> \in
            UNION {{<<h, n, f, u>> :
                        h \in {FullHeader, Without("IsHub")},
                        f \in [1..n -> {"", "1.4", "-1.5", "abc"}],
                        u \in [1..n -> {"", "Yes", "no"}]}
                   : n \in 0..MaxMixRows}}

\* Files whose Gene_Symbol cells vary: n rows cycling through d symbols, the
\* symbol of row p missing (p = 0: none missing).
GeneFiles ==
    {[header |-> FullHeader,
      lines |-> [k \in 1..n |->
                    Line(FullHeader,
                         IF k = p THEN "" ELSE GeneTok(((k - 1) % d) + 1),
                         FcOfRow(k), "0.5", "no")]]
        : <<n, d, p>> \in
            {ndp \in (1..MaxGeneRows) \X (1..MaxGeneRows) \X (0..MaxGeneRows) :
                ndp[2] <= ndp[1] /\ ndp[3] <= ndp[1]}}

(***************************************************************************)
(* The script.                                                             *)
(***************************************************************************)
Init ==
    /\ \/ net = "unreliable" /\ file \in SmallFiles
       \/ net = "reliable" /\ file \in FcFiles \cup MixFiles \cup GeneFiles
    /\ pc = "load"
    /\ df = NoDF
    /\ up_genes = <<>> /\ down_genes = <<>> /\ hub_genes = <<>>
    /\ top_up = <<>> /\ top_down = <<>>
    /\ gene_list = <<>> /\ gi = 0
    /\ requests = <<>> /\ responses = <<>>
    /\ enriched_terms = <<>> /\ top_terms = <<>>
    /\ page = <<>>
    /\ exported = NoText
    /\ error = ""

\* An uncaught exception: Streamlit shows it and the script stops.
Crash(shown, exc) ==
    /\ page' = page \o shown \o <<El("exception")>>
    /\ error' = exc
    /\ pc' = "crashed"

\* Lines 14-24.
Load ==
    /\ pc = "load"
    /\ IF LoadTable(file).err # ""
       THEN /\ Crash(<<>>, LoadTable(file).err)
            /\ UNCHANGED df
       ELSE /\ df' = LoadTable(file).df
            /\ page' = page \o <<El("success")>>
            /\ pc' = "summary"
            /\ UNCHANGED error
    /\ UNCHANGED <<file, net, up_genes, down_genes, hub_genes, top_up, top_down,
                   gene_list, gi, requests, responses, enriched_terms, top_terms,
                   exported>>

\* Lines 26-35.
Summary ==
    /\ pc = "summary"
    /\ up_genes' = UpRows(df)
    /\ down_genes' = DownRows(df)
    /\ IF HubError(df) # ""
       THEN /\ Crash(<<El("summary_header")>>, HubError(df))
            /\ UNCHANGED hub_genes
       ELSE /\ hub_genes' = HubRows(df)
            /\ page' = page \o <<El("summary_header"), El("metrics")>>
            /\ pc' = "top"
            /\ UNCHANGED error
    /\ UNCHANGED <<file, net, df, top_up, top_down, gene_list, gi, requests,
                   responses, enriched_terms, top_terms, exported>>

\* Lines 37-46.
TopGenes ==
    /\ pc = "top"
    /\ IF TopError(df) # ""
       THEN /\ Crash(<<El("top_header")>>, TopError(df))
            /\ UNCHANGED <<top_up, top_down>>
       ELSE /\ top_up' = NLargest(df, up_genes, TopN)
            /\ top_down' = NSmallest(df, down_genes, TopN)
            /\ IF TopColumnsError(df) # ""
               THEN Crash(<<El("top_header"), El("top_up_title")>>, TopColumnsError(df))
               ELSE /\ page' = page \o <<El("top_header"), El("top_up_title"),
                                         El("top_up_table"), El("top_down_title"),
                                         El("top_down_table")>>
                    /\ pc' = "chart"
                    /\ UNCHANGED error
    /\ UNCHANGED <<file, net, df, up_genes, down_genes, hub_genes, gene_list, gi,
                   requests, responses, enriched_terms, top_terms, exported>>

\* Lines 48-53.
Chart ==
    /\ pc = "chart"
    /\ page' = page \o <<El("chart_header"), El("chart")>>
    /\ pc' = "annotations"
    /\ UNCHANGED <<file, net, df, up_genes, down_genes, hub_genes, top_up, top_down,
                   gene_list, gi, requests, responses, enriched_terms, top_terms,
                   exported, error>>

\* Lines 55-57.
AnnotStart ==
    /\ pc = "annotations"
    /\ page' = page \o <<El("annotation_header")>>
    /\ gene_list' = GeneList(df)
    /\ gi' = 1
    /\ pc' = "lookup"
    /\ UNCHANGED <<file, net, df, up_genes, down_genes, hub_genes, top_up, top_down,
                   requests, responses, enriched_terms, top_terms, exported, error>>

\* The exception one iteration of the loop raises on the outcome o, or "".
LookupError(o) ==
    CASE o = "neterr" -> "ConnectionError"
      [] o = "notjson" -> "JSONDecodeError"
      [] o = "nohitsfield" -> "KeyError"
      [] OTHER -> ""

\* The line one iteration renders on the outcome o.
LookupLine(gene, o) ==
    CASE o = "non200" -> AnnotLine(gene, "request_failed")
      [] o = "nohits" -> AnnotLine(gene, "no_match")
      [] o = "hit_bare" -> AnnotLine(gene, "result_defaults")
      [] OTHER -> AnnotLine(gene, "result")

\* Lines 59-71, one iteration.
Lookup ==
    /\ pc = "lookup"
    /\ gi <= Len(gene_list)
    /\ \E o \in LookupOutcomes(net) :
        /\ requests' = Append(requests, Req("lookup", <<gene_list[gi]>>))
        /\ responses' = Append(responses, o)
        /\ IF LookupError(o) # ""
           THEN /\ Crash(<<>>, LookupError(o))
                /\ UNCHANGED gi
           ELSE /\ page' = Append(page, LookupLine(gene_list[gi], o))
                /\ gi' = gi + 1
                /\ UNCHANGED <<pc, error>>
    /\ UNCHANGED <<file, net, df, up_genes, down_genes, hub_genes, top_up, top_down,
                   gene_list, enriched_terms, top_terms, exported>>

\* Mutant of Submit: Step 1 outside the try block.
SubmitUncaught ==
    /\ pc = "lookup"
    /\ gi > Len(gene_list)
    /\ \E o \in SubmitOutcomes(net) :
        /\ requests' = Append(requests, Req("addList", GeneSymbols(df)))
        /\ responses' = Append(responses, o)
        /\ IF o # "ok"
           THEN Crash(<<El("enrichment_header")>>, "Exception")
           ELSE /\ page' = page \o <<El("enrichment_header")>>
                /\ pc' = "query"
                /\ UNCHANGED error
    /\ UNCHANGED <<file, net, df, up_genes, down_genes, hub_genes, top_up, top_down,
                   gene_list, gi, enriched_terms, top_terms, exported>>

\* Lines 73-85, entered when the loop is over: Step 1 of the enrichment.
Submit ==
    /\ pc = "lookup"
    /\ gi > Len(gene_list)
    /\ \E o \in SubmitOutcomes(net) :
        /\ requests' = Append(requests, Req("addList", GeneSymbols(df)))
        /\ responses' = Append(responses, o)
        /\ IF o # "ok"
           THEN /\ page' = page \o <<El("enrichment_header"), El("enrichment_error")>>
                /\ pc' = "export"
           ELSE /\ page' = page \o <<El("enrichment_header")>>
                /\ pc' = "query"
    /\ UNCHANGED <<file, net, df, up_genes, down_genes, hub_genes, top_up, top_down,
                   gene_list, gi, enriched_terms, top_terms, exported, error>>

\* What lines 93-118 render for the array arr, up to the exception if one is
\* raised.
EnrichmentView(arr) ==
    IF arr = <<>> THEN <<El("enrichment_info")>>
    ELSE IF \E k \in 1..Len(TermPrefix(arr)) : TermError(TermPrefix(arr)[k]) # ""
    THEN <<El("enrichment_error")>>
    ELSE IF Log10Error(CollectTerms(TermPrefix(arr))) # ""
    THEN <<El("enrichment_title"), El("enrichment_table"), El("enrichment_error")>>
    ELSE <<El("enrichment_title"), El("enrichment_table"), El("enrichment_chart")>>

\* Lines 87-120: Step 2 of the enrichment and its rendering.
Query ==
    /\ pc = "query"
    /\ \E o \in QueryOutcomes(net) :
        /\ requests' = Append(requests, Req("enrich", <<"KEGG_2021_Human">>))
        /\ responses' = Append(responses, o)
        /\ IF o # "terms"
           THEN /\ page' = Append(page, El("enrichment_error"))
                /\ UNCHANGED <<enriched_terms, top_terms>>
           ELSE \E arr \in TermArrays(net) :
                /\ enriched_terms' = arr
                /\ top_terms' = CollectTerms(TermPrefix(arr))
                /\ page' = page \o EnrichmentView(arr)
    /\ pc' = "export"
    /\ UNCHANGED <<file, net, df, up_genes, down_genes, hub_genes, top_up, top_down,
                   gene_list, gi, exported, error>>

\* Lines 122-124.
Export ==
    /\ pc = "export"
    /\ exported' = ToCsv(df)
    /\ page' = page \o <<El("export_header"), El("download_button")>>
    /\ pc' = "done"
    /\ UNCHANGED <<file, net, df, up_genes, down_genes, hub_genes, top_up, top_down,
                   gene_list, gi, requests, responses, enriched_terms, top_terms,
                   error>>

Next ==
    \/ Load
    \/ Summary
    \/ TopGenes
    \/ Chart
    \/ AnnotStart
    \/ Lookup
    \/ Submit
    \/ Query
    \/ Export

Spec == Init /\ [][Next]_vars

(***************************************************************************)
(* Properties.                                                             *)
(***************************************************************************)
Loaded == HasCol(df, "Regulation")
Lookups == SelectSeq(requests, LAMBDA r : r.kind = "lookup")
IsPrefix(a, b) == Len(a) <= Len(b) /\ SubSeq(b, 1, Len(a)) = a
ReportSections ==
    {"summary_header", "metrics", "top_header", "top_up_title", "top_up_table",
     "top_down_title", "top_down_table", "chart_header", "chart",
     "annotation_header", "annotation", "enrichment_header", "enrichment_title",
     "enrichment_table", "enrichment_chart", "enrichment_info", "enrichment_error",
     "export_header", "download_button"}

\* C1: once the summary counts are shown, the upregulated and the downregulated
\* counts add up to the number of rows of the table, rows with a missing
\* log2(FC) included.
C1_CountsCoverTable ==
    Shown("metrics") => Len(up_genes) + Len(down_genes) = Len(df.rows)

\* C2: every lookup that was issued, whatever the service did, left a line for
\* its gene on the page and did not stop the script.
C2_LookupFailuresNonFatal ==
    /\ Lookups # <<>> => pc # "crashed"
    /\ \A k \in 1..Len(Lookups) :
          \E j \in 1..Len(page) :
              page[j].el = "annotation" /\ page[j].gene = Lookups[k].arg[1]

BadUpload ==
    \/ ReadCsvError(file) # ""
    \/ ~({"Gene_Symbol", "log2(FC)", "Padj"} \subseteq Range(file.header))
\* C3: a file that read_csv rejects or that lacks one of Gene_Symbol, log2(FC),
\* Padj renders no section of the report and issues no request.
C3_BadUploadRendersNothing ==
    BadUpload =>
        /\ \A k \in 1..Len(page) : page[k].el \notin ReportSections
        /\ requests = <<>>

SymbolRows == {k \in 1..Len(df.rows) : df.rows[k]["Gene_Symbol"].t = "str"}
SymbolOf(k) == df.rows[k]["Gene_Symbol"].s
FirstRow(g) == CHOOSE k \in SymbolRows :
                  SymbolOf(k) = g /\ \A m \in SymbolRows : SymbolOf(m) = g => k <= m
DistinctSymbols == {SymbolOf(k) : k \in SymbolRows}
LoopOver == pc \in {"query", "export", "done"} \/ (pc = "lookup" /\ gi > Len(gene_list))
\* C4: the lookups issued are, in order and without repetition, the first
\* distinct non-missing Gene_Symbol values of the table, never more than 10,
\* and all of the first 10 (or all of them) once the loop is over.
C4_LookupsAreFirstTenDistinct ==
    LET lk == [k \in 1..Len(Lookups) |-> Lookups[k].arg[1]]
    IN  /\ Len(lk) <= 10
        /\ \A k \in 1..Len(lk) : Len(Lookups[k].arg) = 1 /\ lk[k] \in DistinctSymbols
        /\ \A j, k \in 1..Len(lk) : j < k => FirstRow(lk[j]) < FirstRow(lk[k])
        /\ \A k \in 1..Len(lk) : \A g \in DistinctSymbols :
              FirstRow(g) < FirstRow(lk[k]) => \E j \in 1..(k - 1) : lk[j] = g
        /\ LoopOver => Len(lk) = Min(10, Cardinality(DistinctSymbols))
C4_Witness ==
    /\ pc = "done"
    /\ Len(Lookups) = 10
    /\ Cardinality(DistinctSymbols) > 10
    /\ Cardinality(SymbolRows) > Cardinality(DistinctSymbols)
    /\ \E k \in 1..Len(df.rows) : df.rows[k]["Gene_Symbol"].t = "nan"

\* C6: every row of the loaded table has Regulation "Up" or "Down", "Up" exactly
\* when log2(FC) > 1 (2.3 is "Up"; -1.5 and 1 are "Down").
C6_RegulationIffAboveOne ==
    Loaded =>
        \A k \in 1..Len(df.rows) :
            LET x == df.rows[k]["log2(FC)"]
                r == df.rows[k]["Regulation"]
            IN  /\ r \in {Str("Up"), Str("Down")}
                /\ r = Str("Up") <=> (x.t = "num" /\ x.n > 10)
                /\ x = Num(23) => r = Str("Up")
                /\ x \in {Num(0 - 15), Num(10)} => r = Str("Down")
C6_Witness ==
    /\ Loaded
    /\ \E i, j, k \in 1..Len(df.rows) :
          /\ df.rows[i]["log2(FC)"] = Num(23) /\ df.rows[i]["Regulation"] = Str("Up")
          /\ df.rows[j]["log2(FC)"] = Num(0 - 15) /\ df.rows[j]["Regulation"] = Str("Down")
          /\ df.rows[k]["log2(FC)"] = Num(10) /\ df.rows[k]["Regulation"] = Str("Down")

UpClassified == {k \in 1..Len(df.rows) : df.rows[k]["Regulation"] = Str("Up")}
Scored == {k \in 1..Len(df.rows) : df.rows[k]["log2(FC)"].t = "num"}
Score(k) == df.rows[k]["log2(FC)"].n
C8_ExportRoundTrip ==
    pc = "done" =>
        LET again == LoadTable(exported)
        IN  /\ again.err = ""
            /\ Len(again.df.rows) = Len(df.rows)
            /\ \A k \in 1..Len(df.rows) :
                  /\ again.df.rows[k]["Regulation"] = df.rows[k]["Regulation"]
                  /\ again.df.rows[k]["IsHub"] = df.rows[k]["IsHub"]
C8_Witness ==
    /\ pc = "done"
    /\ "IsHub" \in Range(file.header)
    /\ Len(df.rows) >= 2
    /\ \E k \in 1..Len(df.rows) : df.rows[k]["IsHub"] = NaN
    /\ \E k \in 1..Len(df.rows) : df.rows[k]["IsHub"] = Str("Yes")
    /\ \E k \in 1..Len(df.rows) : df.rows[k]["log2(FC)"] = NaN
    /\ \E k \in 1..Len(df.rows) : df.rows[k]["Regulation"] = Str("Up")

SubmitFailed ==
    \E k \in 1..Len(requests) : requests[k].kind = "addList" /\ responses[k] # "ok"
QueryFailed ==
    \E k \in 1..Len(requests) :
        /\ requests[k].kind = "enrich"
        /\ \/ responses[k] # "terms"
           \/ \E j \in 1..Min(5, Len(enriched_terms)) :
                 Len(enriched_terms[j]) < 6 \/ enriched_terms[j][3] < 0
EnrichmentRaised == SubmitFailed \/ QueryFailed
C5_OneErrorThenExport ==
    EnrichmentRaised =>
        /\ pc \in {"export", "done"}
        /\ error = ""
        /\ CountShown("enrichment_error") = 1
        /\ SubmitFailed => \A k \in 1..Len(requests) : requests[k].kind # "enrich"
        /\ pc = "done" =>
              /\ page[Len(page)].el = "download_button"
              /\ page[Len(page) - 1].el = "export_header"
              /\ page[Len(page) - 2].el = "enrichment_error"
C5_EnrichmentKeepsPriorSections ==
    (pc \in {"lookup", "query"} /\ pc' \in {"query", "export"}) =>
        /\ IsPrefix(page, page')
        /\ UNCHANGED <<df, up_genes, down_genes, hub_genes, top_up, top_down,
                       gene_list>>
\* C5: when a step of the enrichment raises, the script goes on: one error
\* message is shown, Step 2 is not issued after a failed Step 1, the export
\* follows, and the enrichment steps change nothing rendered or computed before
\* them.
C5_EnrichmentFailureIsContained ==
    [](C5_OneErrorThenExport) /\ [][C5_EnrichmentKeepsPriorSections]_vars
C5_Witness ==
    /\ pc = "done"
    /\ QueryFailed
    /\ \E j \in 1..Len(enriched_terms) : Len(enriched_terms[j]) < 6
    /\ Shown("metrics") /\ Shown("top_up_table") /\ Shown("chart")
    /\ Len(Lookups) = 2

StepsSucceeded ==
    /\ pc \in {"export", "done"}
    /\ \E k \in 1..Len(requests) : requests[k].kind = "addList" /\ responses[k] = "ok"
    /\ \E k \in 1..Len(requests) : requests[k].kind = "enrich" /\ responses[k] = "terms"
\* C9: after two successful steps an empty array gives the info message and
\* neither an error nor a table or chart; a non-empty array of well-formed
\* entries gives its first min(5, length) entries, in the order received.
C9_EmptyIsInfoElseFirstFive ==
    StepsSucceeded =>
        /\ enriched_terms = <<>> =>
              /\ CountShown("enrichment_info") = 1
              /\ ~Shown("enrichment_error")
              /\ ~Shown("enrichment_title")
              /\ ~Shown("enrichment_table")
              /\ ~Shown("enrichment_chart")
        /\ (/\ enriched_terms # <<>>
            /\ \A j \in 1..Min(5, Len(enriched_terms)) : Len(enriched_terms[j]) = 6) =>
              /\ ~Shown("enrichment_info")
              /\ Shown("enrichment_table")
              /\ Len(top_terms) = Min(5, Len(enriched_terms))
              /\ \A j \in 1..Len(top_terms) :
                    top_terms[j] = [Term |-> enriched_terms[j][2],
                                    P |-> enriched_terms[j][3],
                                    Genes |-> enriched_terms[j][6]]
C9_Witness ==
    /\ pc = "done"
    /\ StepsSucceeded
    /\ Len(enriched_terms) > 5
    /\ enriched_terms[1][1] > enriched_terms[2][1]
    /\ Len(top_terms) = 5
    /\ Shown("enrichment_chart")

HubTok(k) == Field(file, k, "IsHub")
====
